---- MODULE Spec2Model ----
(***************************************************************************)
(* firedpy event classification: EventGrid.get_event_perimeters (the       *)
(* per-tile space-time grouping of burn detections) and                    *)
(* ModelBuilder.buildEvents (per-tile tables, stitching of tile-edge       *)
(* events, chronological renumbering), src/firedpy/functions.py.           *)
(*                                                                         *)
(* Conventions.  Python lists are sequences; a Python index i is the       *)
(* sequence index i + 1, so perimeters[event_id - 1] of the source is      *)
(* perimeters[event_id] here.  Grid positions (t, y, x), window positions  *)
(* and the values returned by get_spatial_window keep the source's 0-based *)
(* numbers.  A point is <<y_coord, x_coord, day>> as in curr_pt.           *)
(***************************************************************************)
EXTENDS Integers, Sequences, FiniteSets, TLC

VARIABLES
    files,            \* self.files: the tile ids, sorted
    input_array,      \* tile id -> array[time][y][x] (the tile's netCDF "value")
    netcdf,           \* tile id -> state of the tile's netCDF file on disk
    origin_x,         \* tile id -> x coordinate of the tile's first column
    spatial_param,    \* self.spatial_param
    temporal_param,   \* self.temporal_param
    pc,               \* position in buildEvents
    fi,               \* index into files of the tile being processed
    disk,             \* tile id -> the tile's event table on disk, or NoTable
    available_pairs,  \* get_event_perimeters: available_pairs
    pi,               \* index of the current pair in available_pairs
    bi,               \* index of the current burn in center_burn
    event_grid,       \* builder.event_grid: point -> event id
    perimeters,       \* get_event_perimeters: perimeters
    next_event_id,    \* builder.next_event_id
    last_step,        \* what the last executed loop body did (observation only)
    edges,            \* buildEvents: the rows of the edge events
    not_edges,        \* buildEvents: the rows of the other events
    eids,             \* buildEvents: the edge ids to visit
    ei,               \* index of the current id (iden) in eids
    d1,               \* buildEvents: first day of the last non-empty edf
    d2,               \* buildEvents: last day of the last non-empty edf
    df                \* buildEvents: the merged table written to self.dest

vars == <<files, input_array, netcdf, origin_x, spatial_param, temporal_param, pc, fi,
          disk, available_pairs, pi, bi, event_grid, perimeters,
          next_event_id, last_step, edges, not_edges, eids, ei, d1, d2, df>>

\* the variables of the tiles' inputs and of the configuration
config == <<files, input_array, netcdf, origin_x, spatial_param, temporal_param>>
\* the variables of the EventGrid being built and of its loop
builder == <<available_pairs, pi, bi, event_grid, perimeters, next_event_id>>
\* the variables of the stitching and renumbering stages
stitching == <<edges, not_edges, eids, ei, d1, d2, df>>

----------------------------------------------------------------------------
(* Python builtins used by the source *)

max(a, b) == IF a > b THEN a ELSE b
min(a, b) == IF a < b THEN a ELSE b
abs(a) == IF a < 0 THEN 0 - a ELSE a

\* a[i] for a Python sequence of length n: a negative i counts from the end
PyIndex(i, n) == IF i < 0 THEN i + n ELSE i

\* number of elements of a[lo:hi] for a Python sequence of length n, 0 <= lo
PySliceLen(lo, hi, n) == max(0, min(hi, n) - lo)

\* the elements of a sequence, as a set
Range(s) == {s[i] : i \in 1..Len(s)}

----------------------------------------------------------------------------
(* The tile's array and coordinates *)

\* pixel size, self.res = self.geom[1]
res == 2

\* merge_id of a perimeter that was never merged (np.nan)
nan == 0

\* not yet assigned (a Python name that is not bound)
Unbound == <<"unbound">>

\* a table of tables/events that does not exist, and one that holds rows
NoTable == [exists |-> FALSE, rows |-> <<>>]
Table(rows) == [exists |-> TRUE, rows |-> rows]

\* arr.shape = (nz, ny, nx)
Shape(arr) == <<Len(arr), Len(arr[1]), Len(arr[1][1])>>

\* arr[t, y, x]
At(arr, t, y, x) == arr[t + 1][y + 1][x + 1]

\* self.coordinates["y"].data and self.coordinates["x"].data of a tile
all_ys(tile) == [i \in 1..Shape(input_array[tile])[2] |-> (i - 1) * res]
all_xs(tile) == [i \in 1..Shape(input_array[tile])[3] |-> origin_x[tile] + (i - 1) * res]

----------------------------------------------------------------------------
(* EventPerimeter *)

\* add_coordinates assigning the list instead of appending to it
add_coordinates_assign(coords, coord_list) == coord_list

\* EventPerimeter.add_coordinates: append every coordinate, in order
add_coordinates(coords, coord_list) == coords \o coord_list

\* EventPerimeter.__init__.  notice is FALSE while coords is the list of
\* points; merge_perimeters replaces coords by [merge_notice, new_pts], which
\* is notice = TRUE with the old points kept in coords (so "coords[0] is a
\* str" of the source reads notice here).
EventPerimeter(event_id, coord_list) ==
    [event_id |-> event_id, merge_id |-> nan,
     coords |-> add_coordinates(<<>>, coord_list), notice |-> FALSE]

----------------------------------------------------------------------------
(* EventGrid *)

\* EventGrid.add_event_grid: event_grid.update({p: event_id}) for every p
add_event_grid(grid, event_id, new_pts) ==
    [p \in (DOMAIN grid) \cup Range(new_pts) |->
        IF p \in Range(new_pts) THEN event_id ELSE grid[p]]

\* merge_perimeters leaving the obsolete perimeter's points in place
merge_perimeters_keep(perims, grid, event_id, obsolete_id) ==
    LET new_pts == perims[obsolete_id].coords
    IN  [perimeters |->
             [perims EXCEPT ![event_id].coords = add_coordinates(@, new_pts),
                            ![obsolete_id].merge_id = event_id],
         event_grid |-> add_event_grid(grid, event_id, new_pts),
         raised |-> FALSE]

\* merge_perimeters leaving event_grid as it was
merge_perimeters_stale(perims, grid, event_id, obsolete_id) ==
    LET new_pts == perims[obsolete_id].coords
    IN  [perimeters |->
             [perims EXCEPT ![event_id].coords = add_coordinates(@, new_pts),
                            ![obsolete_id].merge_id = event_id,
                            ![obsolete_id].notice = TRUE],
         event_grid |-> grid,
         raised |-> FALSE]

\* merge_perimeters deleting the obsolete perimeter from the list
merge_perimeters_delete(perims, grid, event_id, obsolete_id) ==
    LET new_pts == perims[obsolete_id].coords
        merged == [perims EXCEPT ![event_id].coords = add_coordinates(@, new_pts)]
    IN  [perimeters |->
             SubSeq(merged, 1, obsolete_id - 1)
                \o SubSeq(merged, obsolete_id + 1, Len(merged)),
         event_grid |-> add_event_grid(grid, event_id, new_pts),
         raised |-> FALSE]

\* merge_perimeters going on as for a live perimeter when the obsolete one
\* holds a merge notice
merge_perimeters_silent(perims, grid, event_id, obsolete_id) ==
    LET new_pts == perims[obsolete_id].coords
    IN  [perimeters |->
             [perims EXCEPT ![event_id].coords = add_coordinates(@, new_pts),
                            ![obsolete_id].merge_id = event_id,
                            ![obsolete_id].notice = TRUE],
         event_grid |-> add_event_grid(grid, event_id, new_pts),
         raised |-> FALSE]

\* EventGrid.merge_perimeters; returns the perimeters and the event_grid,
\* and whether the call raised.  The coords of a perimeter that was merged
\* before are [merge_notice, points]: the loop "for p in new_pts" first
\* stores the notice string as a key of event_grid and then reaches the
\* list of points, which is not hashable, so that event_grid[p] = event_id
\* raises TypeError; merge_id has been set by then, and nothing after the
\* loop is executed.
merge_perimeters(perims, grid, event_id, obsolete_id) ==
    LET new_pts == perims[obsolete_id].coords
        grid2 == [p \in (DOMAIN grid) \cup Range(new_pts) |->
                     IF p \in Range(new_pts) THEN event_id ELSE grid[p]]
        survivor == [perims[event_id] EXCEPT
                        !.coords = add_coordinates(@, new_pts)]
        obsolete == [perims[obsolete_id] EXCEPT
                        !.merge_id = event_id, !.notice = TRUE]
        merge_notice == <<"Merged with event", perims[obsolete_id].merge_id>>
    IN  IF perims[obsolete_id].notice
        THEN [perimeters |-> [perims EXCEPT ![obsolete_id].merge_id = event_id],
              event_grid |-> [p \in (DOMAIN grid) \cup {merge_notice} |->
                                 IF p = merge_notice THEN event_id ELSE grid[p]],
              raised |-> TRUE]
        ELSE [perimeters |-> [perims EXCEPT ![event_id] = survivor,
                                            ![obsolete_id] = obsolete],
              event_grid |-> grid2,
              raised |-> FALSE]

\* get_spatial_window without the four edge cases: the center always at
\* spatial_param, the origin always at y - sp, x - sp
get_spatial_window_centered(y, x, array_dims, sp) ==
    [top |-> max(0, y - sp), bottom |-> min(array_dims[1], y + sp),
     left |-> max(0, x - sp), right |-> min(array_dims[2], x + sp),
     center |-> <<sp, sp>>, origin |-> <<y - sp, x - sp>>]

\* EventGrid.get_spatial_window; array_dims = <<ny, nx>>
get_spatial_window(y, x, array_dims, sp) ==
    LET top == max(0, y - sp)
        bottom == min(array_dims[1], y + sp)
        left == max(0, x - sp)
        right == min(array_dims[2], x + sp)
        ydim == array_dims[1]
        xdim == array_dims[2]
        tps == 0 .. (sp - 1)
        x_edges_1 == {0 + t : t \in tps}
        x_edges_2 == {xdim - t : t \in tps}
        y_edges_1 == {0 + t : t \in tps}
        y_edges_2 == {ydim - t : t \in tps}
        ycenter == IF y \in y_edges_1 THEN y
                   ELSE IF y \in y_edges_2 THEN y - ydim ELSE sp
        oy == IF y \in y_edges_1 THEN 0 ELSE y - sp
        xcenter == IF x \in x_edges_1 THEN x
                   ELSE IF x \in x_edges_2 THEN x - xdim ELSE sp
        ox == IF x \in x_edges_1 THEN 0 ELSE x - sp
    IN  [top |-> top, bottom |-> bottom, left |-> left, right |-> right,
         center |-> <<ycenter, xcenter>>, origin |-> <<oy, ox>>]

\* mask = input_array.max(dim="time") at one cell
MaxOverTime(arr, y, x) ==
    LET nz == Shape(arr)[1]
        m[t \in 0..(nz - 1)] ==
            IF t = 0 THEN At(arr, 0, y, x) ELSE max(m[t - 1], At(arr, t, y, x))
    IN  m[nz - 1]

\* get_availables listing every cell of the tile
get_availables_all(arr) ==
    [k \in 1..(Shape(arr)[2] * Shape(arr)[3]) |->
        <<(k - 1) \div Shape(arr)[3], (k - 1) % Shape(arr)[3]>>]

\* get_availables with the mask taken from the first time step only
get_availables_first(arr) ==
    LET ny == Shape(arr)[2]
        nx == Shape(arr)[3]
        cell(k) == <<(k - 1) \div nx, (k - 1) % nx>>
        Positive(c) == At(arr, 0, c[1], c[2]) > 0
    IN  SelectSeq([k \in 1..(ny * nx) |-> cell(k)], Positive)

\* EventGrid.get_availables: np.where(mask > 0) lists the cells in C order
get_availables(arr) ==
    LET ny == Shape(arr)[2]
        nx == Shape(arr)[3]
        cell(k) == <<(k - 1) \div nx, (k - 1) % nx>>
        Positive(c) == MaxOverTime(arr, c[1], c[2]) > 0
    IN  SelectSeq([k \in 1..(ny * nx) |-> cell(k)], Positive)

\* window = arr[:, top:bottom+1, left:right+1]: its shape
WindowShape(arr, w) ==
    <<Shape(arr)[1],
      PySliceLen(w.top, w.bottom + 1, Shape(arr)[2]),
      PySliceLen(w.left, w.right + 1, Shape(arr)[3])>>

\* window[t, wy, wx], wy and wx being Python indices into the window
WindowAt(arr, w, t, wy, wx) ==
    LET shp == WindowShape(arr, w)
    IN  At(arr, t, w.top + PyIndex(wy, shp[2]), w.left + PyIndex(wx, shp[3]))

\* center_burn = window[:, cy, cx]; center_burn = center_burn[center_burn > 0]
CenterBurn(arr, w) ==
    LET nz == Shape(arr)[1]
        IsBurn(v) == v > 0
    IN  SelectSeq([t \in 1..nz |-> WindowAt(arr, w, t - 1, w.center[1], w.center[2])],
                  IsBurn)

\* np.where(diff <= temporal_param) over the window, in C order (t, y, x),
\* and the points curr_pt built from it, in that order
Candidates(tile, arr, w, burn, tp) ==
    LET shp == WindowShape(arr, w)
        n == shp[1] * shp[2] * shp[3]
        loc(k) == <<(k - 1) \div (shp[2] * shp[3]),
                    ((k - 1) \div shp[3]) % shp[2],
                    (k - 1) % shp[3]>>
        val(l) == WindowAt(arr, w, l[1], l[2], l[3])
        Near(l) == abs(burn - val(l)) <= tp
        val_locs == SelectSeq([k \in 1..n |-> loc(k)], Near)
        ys == all_ys(tile)
        xs == all_xs(tile)
        curr_pt(l) == <<ys[PyIndex(w.origin[1] + l[2], Len(ys)) + 1],
                        xs[PyIndex(w.origin[2] + l[3], Len(xs)) + 1],
                        val(l)>>
    IN  [i \in 1..Len(val_locs) |-> curr_pt(val_locs[i])]

\* the loop over range(len(vals)): the ids found, without repetition, in
\* discovery order
CurrEventIds(cands, grid) ==
    LET ids[i \in 0..Len(cands)] ==
            IF i = 0 THEN <<>>
            ELSE IF cands[i] \in DOMAIN grid /\ grid[cands[i]] \notin Range(ids[i - 1])
                 THEN Append(ids[i - 1], grid[cands[i]])
                 ELSE ids[i - 1]
    IN  ids[Len(cands)]

\* the loop over range(len(vals)): the points not yet in event_grid
NewPts(cands, grid) ==
    LET IsNew(p) == p \notin DOMAIN grid
    IN  SelectSeq(cands, IsNew)

----------------------------------------------------------------------------
(* EventGrid.get_event_perimeters: one action per execution of the body of  *)
(* "for burn in center_burn", the enclosing "for pair in available_pairs"   *)
(* supplying the window.                                                    *)

\* the tile of the EventGrid being built
tile_id == files[fi]
arr == input_array[tile_id]
dims == <<Shape(arr)[2], Shape(arr)[3]>>

InLoop == pc = "perimeters" /\ pi <= Len(available_pairs)

pair == available_pairs[pi]
window == get_spatial_window(pair[1], pair[2], dims, spatial_param)
center_burn == CenterBurn(arr, window)
burn == center_burn[bi]
candidates == Candidates(tile_id, arr, window, burn, temporal_param)
curr_event_ids == CurrEventIds(candidates, event_grid)
new_pts == NewPts(candidates, event_grid)

\* the point of the detection being processed
center_pt == <<all_ys(tile_id)[pair[1] + 1], all_xs(tile_id)[pair[2] + 1], burn>>

\* next burn of the same cell, or the first burn of the next pair
NextBurn ==
    /\ pi' = IF bi < Len(center_burn) THEN pi ELSE pi + 1
    /\ bi' = IF bi < Len(center_burn) THEN bi + 1 ELSE 1

Observed(kind) ==
    [kind |-> kind, center |-> center_pt, ids |-> curr_event_ids,
     new_pts |-> new_pts]

\* the tile's table exists already, or it does not and neither does the
\* tile's netCDF file: the branches of the loop over self.files that do
\* nothing
PassTile ==
    /\ pc = "file"
    /\ fi <= Len(files)
    /\ IF disk[tile_id].exists THEN TRUE ELSE netcdf[tile_id] = "missing"
    /\ fi' = fi + 1
    /\ pc' = IF fi + 1 > Len(files) THEN "read" ELSE "file"
    /\ last_step' = [kind |-> "pass"]
    /\ UNCHANGED <<config, disk, builder, stitching>>

\* the tile's netCDF file cannot be read: EventGrid(...) or the first read
\* of its values raises, and nothing in buildEvents catches the exception
RaiseTile ==
    /\ pc = "file"
    /\ fi <= Len(files)
    /\ ~disk[tile_id].exists
    /\ netcdf[tile_id] = "corrupt"
    /\ pc' = "raised"
    /\ last_step' = [kind |-> "raise"]
    /\ UNCHANGED <<config, fi, disk, builder, stitching>>

\* the builder is created and get_event_perimeters runs up to its loop
NewEventGrid ==
    /\ pc = "file"
    /\ fi <= Len(files)
    /\ ~disk[tile_id].exists
    /\ netcdf[tile_id] = "ok"
    /\ event_grid' = <<>>
    /\ next_event_id' = 1
    /\ available_pairs' = get_availables(arr)
    /\ perimeters' = <<>>
    /\ pi' = 1
    /\ bi' = 1
    /\ pc' = "perimeters"
    /\ last_step' = [kind |-> "start"]
    /\ UNCHANGED <<config, fi, disk, stitching>>

\* len(curr_event_ids) == 0: a new perimeter
CreateEvent ==
    /\ InLoop
    /\ Len(curr_event_ids) = 0
    /\ perimeters' = Append(perimeters, EventPerimeter(next_event_id, new_pts))
    /\ event_grid' = add_event_grid(event_grid, next_event_id, new_pts)
    /\ next_event_id' = next_event_id + 1
    /\ NextBurn
    /\ last_step' = Observed("create")
    /\ UNCHANGED <<config, pc, fi, disk, available_pairs, stitching>>

\* len(curr_event_ids) == 1: the new points join the one event found
ExtendEvent ==
    /\ InLoop
    /\ Len(curr_event_ids) = 1
    /\ LET event_id == curr_event_ids[1]
       IN  IF Len(new_pts) > 0
           THEN /\ perimeters' =
                       [perimeters EXCEPT ![event_id].coords =
                                              add_coordinates(@, new_pts)]
                /\ event_grid' = add_event_grid(event_grid, event_id, new_pts)
           ELSE UNCHANGED <<perimeters, event_grid>>
    /\ NextBurn
    /\ last_step' = Observed("extend")
    /\ UNCHANGED <<config, pc, fi, disk, available_pairs, next_event_id,
                   stitching>>

\* the overlap branch merging every id found into the first
MergeEvents_all ==
    /\ InLoop
    /\ Len(curr_event_ids) >= 2
    /\ LET m[k \in 1..Len(curr_event_ids)] ==
               IF k = 1
               THEN [perimeters |-> perimeters, event_grid |-> event_grid]
               ELSE merge_perimeters(m[k - 1].perimeters, m[k - 1].event_grid,
                                     curr_event_ids[1], curr_event_ids[k])
       IN  /\ perimeters' = m[Len(curr_event_ids)].perimeters
           /\ event_grid' = m[Len(curr_event_ids)].event_grid
    /\ NextBurn
    /\ last_step' = Observed("merge")
    /\ UNCHANGED <<config, pc, fi, disk, available_pairs, next_event_id,
                   stitching>>

\* otherwise: the events overlap, the second id found is merged into the
\* first; an exception of merge_perimeters ends the run
MergeEvents ==
    /\ InLoop
    /\ Len(curr_event_ids) >= 2
    /\ LET merged == merge_perimeters(perimeters, event_grid,
                                      curr_event_ids[1], curr_event_ids[2])
       IN  /\ perimeters' = merged.perimeters
           /\ event_grid' = merged.event_grid
           /\ IF merged.raised
              THEN pc' = "raised" /\ UNCHANGED <<pi, bi>>
              ELSE pc' = pc /\ NextBurn
    /\ last_step' = Observed("merge")
    /\ UNCHANGED <<config, fi, disk, available_pairs, next_event_id,
                   stitching>>

\* merge_perimeters called on the list get_event_perimeters returned, with
\* any two different ids of it
CallMerge ==
    /\ pc = "table"
    /\ \E event_id \in 1..Len(perimeters), obsolete_id \in 1..Len(perimeters) :
          /\ event_id # obsolete_id
          /\ LET merged == merge_perimeters(perimeters, event_grid,
                                            event_id, obsolete_id)
             IN  /\ perimeters' = merged.perimeters
                 /\ event_grid' = merged.event_grid
                 /\ pc' = IF merged.raised THEN "raised" ELSE "called"
          /\ last_step' = [kind |-> "call", event_id |-> event_id,
                           obsolete_id |-> obsolete_id,
                           tombstoned |-> perimeters[obsolete_id].notice]
    /\ UNCHANGED <<config, fi, disk, available_pairs, pi, bi, next_event_id,
                   stitching>>

\* the loop over available_pairs is exhausted: return perimeters
ReturnPerimeters ==
    /\ pc = "perimeters"
    /\ pi > Len(available_pairs)
    /\ pc' = "table"
    /\ last_step' = [kind |-> "return"]
    /\ UNCHANGED <<config, fi, disk, builder, stitching>>

----------------------------------------------------------------------------
(* ModelBuilder.buildEvents: the table of one tile *)

\* base = dt.datetime(1970, 1, 1).  A date is kept as its proleptic
\* Gregorian ordinal (datetime.toordinal), which is 719163 for 1970-01-01.
base == 719163

\* base + dt.timedelta(c[2]): the date that many days after base
DateOf(day) == base + day

\* toDays of buildEvents: delta = date - base; delta.days
toDays(date, from) == date - from

\* a[:k] and a[-k:] of a Python sequence, k >= 0
PyFirst(a, k) == SubSeq(a, 1, min(k, Len(a)))
PyLast(a, k) == IF k = 0 THEN a ELSE SubSeq(a, max(1, Len(a) - k + 1), Len(a))

\* self.sp_buf = builder.spatial_param * self.res (setGeometry)
sp_buf == spatial_param * res

\* edgeCheck
edgeCheck(yedges, xedges, coord, sp_buffer) ==
    IF coord[1] \in Range(yedges) THEN TRUE
    ELSE IF coord[2] \in Range(xedges) THEN TRUE
    ELSE FALSE

\* flttn: a list of lists as one list
flttn(lst) ==
    LET f[i \in 0..Len(lst)] == IF i = 0 THEN <<>> ELSE f[i - 1] \o lst[i]
    IN  f[Len(lst)]

\* PerimeterRows without lines 141-144: each row keeps the flag edgeCheck
\* gave its own point
PerimeterRows_own(tile, p, yedges, xedges) ==
    LET coord == p.coords
    IN  [i \in 1..Len(coord) |->
            [id |-> p.event_id, date |-> DateOf(coord[i][3]),
             x |-> coord[i][2], y |-> coord[i][1],
             edge |-> edgeCheck(yedges, xedges, coord[i], sp_buf),
             tile |-> tile]]

\* the rows of one perimeter p of plist: id, date, x, y, edge, tile
PerimeterRows(tile, p, yedges, xedges) ==
    LET coord == p.coords
        edge0 == [i \in 1..Len(coord) |->
                     edgeCheck(yedges, xedges, coord[i], sp_buf)]
        any == \E i \in 1..Len(coord) : edge0[i]
        edge == IF any THEN [i \in 1..Len(coord) |-> TRUE] ELSE edge0
    IN  [i \in 1..Len(coord) |->
            [id |-> p.event_id, date |-> DateOf(coord[i][3]),
             x |-> coord[i][2], y |-> coord[i][1], edge |-> edge[i],
             tile |-> tile]]

\* the data frame edf of a tile, from the perimeters get_event_perimeters
\* returned
TileTable(tile, perimeters_) ==
    LET NotMerged(p) == ~p.notice
        perims == SelectSeq(perimeters_, NotMerged)
        ys == all_ys(tile)
        xs == all_xs(tile)
        yedges == PyFirst(ys, spatial_param) \o PyLast(ys, spatial_param)
        xedges == PyLast(xs, spatial_param) \o PyFirst(xs, spatial_param)
    IN  flttn([k \in 1..Len(perims) |->
                  PerimeterRows(tile, perims[k], yedges, xedges)])

\* lines 116-175: the tile's table is built and written to disk, and the
\* loop over self.files goes on
BuildTable ==
    /\ pc = "table"
    /\ disk' = [disk EXCEPT ![tile_id] = Table(TileTable(tile_id, perimeters))]
    /\ fi' = fi + 1
    /\ pc' = IF fi + 1 > Len(files) THEN "read" ELSE "file"
    /\ last_step' = [kind |-> "table"]
    /\ UNCHANGED <<config, builder, stitching>>

----------------------------------------------------------------------------
(* ModelBuilder.buildEvents: reading the tables, stitching, renumbering *)

RECURSIVE Orders(_)
\* the orders in which glob may list the files of a set of tiles
Orders(S) ==
    IF S = {} THEN {<<>>}
    ELSE UNION {{<<t>> \o o : o \in Orders(S \ {t})} : t \in S}

\* Series.unique(): the values in order of first appearance
unique(values) ==
    LET u[i \in 0..Len(values)] ==
            IF i = 0 THEN <<>>
            ELSE IF values[i] \in Range(u[i - 1]) THEN u[i - 1]
                 ELSE Append(u[i - 1], values[i])
    IN  u[Len(values)]

\* the column "id" of a frame
Ids(frame) == [i \in 1..Len(frame) |-> frame[i].id]

\* frame[frame["id"] == iden]
RowsOf(frame, iden) ==
    LET Is(r) == r.id = iden
    IN  SelectSeq(frame, Is)

\* min and max of a non-empty column of days
MinDays(frame) ==
    CHOOSE d \in {frame[i].days : i \in 1..Len(frame)} :
        \A i \in 1..Len(frame) : d <= frame[i].days
MaxDays(frame) ==
    CHOOSE d \in {frame[i].days : i \in 1..Len(frame)} :
        \A i \in 1..Len(frame) : d >= frame[i].days

\* ReadTable without line 196: the id is left as the tile wrote it
ReadTable_local(table) ==
    [i \in 1..Len(table) |->
        [id |-> table[i].id,
         date |-> table[i].date,
         x |-> table[i].x, y |-> table[i].y,
         edge |-> table[i].edge, tile |-> table[i].tile,
         days |-> toDays(table[i].date, base)]]

\* a tile's csv as read back and prepared: the id made unique as
\* tile + "_" + str(id) (the pair <<tile, id>> here), days from the date
ReadTable(table) ==
    [i \in 1..Len(table) |->
        [id |-> <<table[i].tile, table[i].id>>,
         date |-> table[i].date,
         x |-> table[i].x, y |-> table[i].y,
         edge |-> table[i].edge, tile |-> table[i].tile,
         days |-> toDays(table[i].date, base)]]

\* pd.concat(edfs), the tables being read in the given order
ReadAll(order) ==
    flttn([k \in 1..Len(order) |-> ReadTable(disk[order[k]].rows)])

\* lines 180-208: the tables are read in the order glob lists them,
\* concatenated and split into edge and other events
ReadTables ==
    /\ pc = "read"
    /\ \E order \in Orders({t \in Range(files) : disk[t].exists}) :
          LET all == ReadAll(order)
              IsEdge(r) == r.edge = TRUE
              NotEdge(r) == r.edge = FALSE
          IN  /\ edges' = SelectSeq(all, IsEdge)
              /\ not_edges' = SelectSeq(all, NotEdge)
              /\ eids' = unique(Ids(SelectSeq(all, IsEdge)))
    /\ ei' = 1
    /\ pc' = "stitch"
    /\ last_step' = [kind |-> "read"]
    /\ UNCHANGED <<config, fi, disk, builder, d1, d2, df>>

\* spCheck
spCheck(diffs, sp_buffer) ==
    LET Within(e) == abs(e) < sp_buffer
        checks == SelectSeq(diffs, Within)
    IN  \* any(checks): some element is truthy, that is, not zero
        \E i \in 1..Len(checks) : checks[i] # 0

\* lines 229-235: is some row of edf near the rows of edf2?
Adjacent(edf, edf2) ==
    LET ydiffs == [i \in 1..Len(edf) |->
                      [j \in 1..Len(edf2) |-> edf[i].y - edf2[j].y]]
        xdiffs == [i \in 1..Len(edf) |->
                      [j \in 1..Len(edf2) |-> edf[i].x - edf2[j].x]]
        ychecks == [i \in 1..Len(edf) |-> spCheck(ydiffs[i], sp_buf)]
        xchecks == [i \in 1..Len(edf) |-> spCheck(xdiffs[i], sp_buf)]
    IN  \E i \in 1..Len(ychecks) : ychecks[i] /\ xchecks[i]

\* edges["id"][edges["id"] == old] = new
Relabel(frame, old, new) ==
    [i \in 1..Len(frame) |->
        IF frame[i].id = old THEN [frame[i] EXCEPT !.id = new] ELSE frame[i]]

\* lines 223-225: the ids close in time to [day1, day2], in order
TemporalCandidates(frame, iden, day1, day2) ==
    LET Close(r) == /\ r.id # iden
                    /\ \/ abs(r.days - day1) < temporal_param
                       \/ abs(r.days - day2) < temporal_param
    IN  unique(Ids(SelectSeq(frame, Close)))

\* lines 228-241: the loop over eids2, edf and d1 being those of iden; the
\* frame "edges" before the loop (at 0) and after each of its turns
MergeFrames(frame, iden, edf, day1, eids2) ==
    LET e[k \in 0..Len(eids2)] ==
            IF k = 0 THEN frame
            ELSE LET iden2 == eids2[k]
                     edf2 == RowsOf(e[k - 1], iden2)
                 IN  IF Adjacent(edf, edf2)
                     THEN IF day1 < MinDays(edf2)
                          THEN Relabel(e[k - 1], iden2, iden)
                          ELSE Relabel(e[k - 1], iden, iden2)
                     ELSE e[k - 1]
    IN  e

\* lines 228-241: the frame "edges" when the loop over eids2 has ended
MergeLoop(frame, iden, edf, day1, eids2) ==
    MergeFrames(frame, iden, edf, day1, eids2)[Len(eids2)]

\* lines 210-241: the body of the loop over eids for one iden; d1 and d2 keep
\* their values when edf is empty (the except branch)
StitchBody(frame, iden, day1, day2) ==
    LET edf == RowsOf(frame, iden)
        nd1 == IF Len(edf) > 0 THEN MinDays(edf) ELSE day1
        nd2 == IF Len(edf) > 0 THEN MaxDays(edf) ELSE day2
        eids2 == TemporalCandidates(frame, iden, nd1, nd2)
    IN  [edges |-> MergeLoop(frame, iden, edf, nd1, eids2),
         d1 |-> nd1, d2 |-> nd2]

\* one turn of the loop "for iden in eids"
StitchId ==
    /\ pc = "stitch"
    /\ ei <= Len(eids)
    /\ LET out == StitchBody(edges, eids[ei], d1, d2)
       IN  /\ edges' = out.edges
           /\ d1' = out.d1
           /\ d2' = out.d2
    /\ ei' = ei + 1
    /\ last_step' = [kind |-> "stitch", iden |-> eids[ei]]
    /\ UNCHANGED <<config, pc, fi, disk, builder, not_edges, eids, df>>

\* lines 209-241: the whole loop "for iden in eids" over a frame of edge
\* rows, d1 and d2 not being bound before it
StitchAll(frame, ids) ==
    LET s[k \in 0..Len(ids)] ==
            IF k = 0 THEN [edges |-> frame, d1 |-> Unbound, d2 |-> Unbound]
            ELSE StitchBody(s[k - 1].edges, ids[k], s[k - 1].d1, s[k - 1].d2)
    IN  s[Len(ids)].edges

\* df.groupby("id").days.transform("min") for one id
FirstDay(frame, iden) == MinDays(RowsOf(frame, iden))

\* a sequence as a bag of its elements
BagOf(rows) ==
    [r \in Range(rows) |-> Cardinality({i \in 1..Len(rows) : rows[i] = r})]

\* sort_values("first") leaving the ids in any order
SortedOrders_any(S, first) == Orders(S)

RECURSIVE SortedOrders(_, _)
\* firsts.sort_values("first"): the orders of the ids of S by ascending
\* first day.  The sort is not a stable one, so ids with the same first day
\* may come out in any order.
SortedOrders(S, first) ==
    IF S = {} THEN {<<>>}
    ELSE UNION {{<<a>> \o o : o \in SortedOrders(S \ {a}, first)} :
                   a \in {b \in S : \A c \in S : first[b] <= first[c]}}

\* lines 243-262: the frames are put back together and the ids renumbered
\* in the order of their first day.  The rows of one id may be written in
\* any order (sort_values("id") is not stable either), so the table written
\* is kept as a bag of rows.
Renumber ==
    /\ pc = "stitch"
    /\ ei > Len(eids)
    /\ LET all == not_edges \o edges
           ids == Range(Ids(all))
           first == [iden \in ids |-> FirstDay(all, iden)]
       IN  \E firsts \in SortedOrders(ids, first) :
              LET idmap == [iden \in ids |->
                               CHOOSE n \in 1..Len(firsts) : firsts[n] = iden]
              IN  df' = BagOf([i \in 1..Len(all) |->
                                  [id |-> idmap[all[i].id],
                                   tile |-> all[i].tile,
                                   date |-> all[i].date,
                                   x |-> all[i].x, y |-> all[i].y]])
    /\ pc' = "done"
    /\ last_step' = [kind |-> "renumber"]
    /\ UNCHANGED <<config, fi, disk, builder, edges, not_edges, eids, ei,
                   d1, d2>>

----------------------------------------------------------------------------
(* Inputs *)

\* largest day value of the exhaustively enumerated strips
MaxDay == 5

\* shape (time steps, rows, columns) of the exhaustively enumerated strips
StripShape == <<2, 1, 2>>

\* a 3 x 4 tile with nine detections over one time step
SceneA ==
    << << <<5, 0, 0, 5>>,
          <<2, 4, 5, 2>>,
          <<4, 3, 2, 0>> >> >>

\* a 2 x 3 tile over two time steps, with days inside the temporal window
\* of day 0
SceneB ==
    << << <<2, 0, 1>>,
          <<2, 0, 5>> >>,
       << <<4, 0, 2>>,
          <<1, 4, 3>> >> >>

\* two 5 x 5 tiles side by side, h08v04 to the west of h09v04
SceneWest ==
    << << <<0, 0, 9, 0, 4>>,
          <<0, 4, 0, 0, 7>>,
          <<0, 0, 0, 0, 0>>,
          <<0, 0, 0, 7, 0>>,
          <<0, 0, 0, 0, 0>> >> >>
SceneEast ==
    << << <<5, 0, 0, 0, 0>>,
          <<0, 0, 0, 0, 0>>,
          <<0, 0, 4, 7, 0>>,
          <<0, 7, 0, 0, 7>>,
          <<0, 0, 0, 0, 0>> >> >>

\* two 6 x 6 tiles side by side whose inner 2 x 2 cells lie outside the
\* edge zone of spatial_param = 2
InnerWest ==
    << << <<0, 0, 0, 0, 0, 5>>,
          <<0, 0, 0, 0, 0, 0>>,
          <<0, 0, 2, 0, 0, 0>>,
          <<0, 0, 0, 9, 0, 0>>,
          <<0, 0, 0, 0, 0, 0>>,
          <<0, 0, 0, 0, 0, 0>> >> >>
InnerEast ==
    << << <<0, 0, 0, 0, 0, 0>>,
          <<5, 0, 0, 0, 0, 0>>,
          <<0, 0, 2, 0, 0, 0>>,
          <<0, 4, 0, 3, 0, 0>>,
          <<0, 0, 0, 0, 0, 0>>,
          <<0, 0, 0, 0, 0, 0>> >> >>

\* the positions of the detections of an array
Detections(a) ==
    {c \in (1..Len(a)) \X (1..Len(a[1])) \X (1..Len(a[1][1])) :
        a[c[1]][c[2]][c[3]] > 0}

\* the array a with only the detections at the positions keep
Keep(a, keep) ==
    [t \in 1..Len(a) |-> [y \in 1..Len(a[1]) |-> [x \in 1..Len(a[1][1]) |->
        IF <<t, y, x>> \in keep THEN a[t][y][x] ELSE 0]]]

\* every way of erasing detections of an array
SubScenes(a) == {Keep(a, keep) : keep \in SUBSET Detections(a)}

Strips ==
    [1..StripShape[1] -> [1..StripShape[2] -> [1..StripShape[3] -> 0..MaxDay]]]

\* the states of a tile's netCDF file: it can be read, it is not there, or
\* reading it raises
FileStates == {"ok", "missing", "corrupt"}

\* the tables an earlier run of buildEvents may have left for a tile.  Only
\* the table of a tile that holds a single detection, on a day larger than
\* temporal_param, is listed: the classification of such a tile creates one
\* perimeter of that one point.
EarlierTables(tile, a) ==
    IF Cardinality(Detections(a)) = 1
    THEN LET c == CHOOSE c \in Detections(a) : TRUE
             day == a[c[1]][c[2]][c[3]]
             pt == <<all_ys(tile)[c[2]], all_xs(tile)[c[3]], day>>
         IN  IF day > temporal_param
             THEN {Table(TileTable(tile, <<EventPerimeter(1, <<pt>>)>>))}
             ELSE {}
    ELSE {}

\* the state when buildEvents starts on the given tiles.  The first file
\* was opened by setGeometry, so it is there; a file that is not there or
\* cannot be read has no values (its array is left empty); a tile may have
\* its table from an earlier run.
Start(tiles, arrays, xs, sp, tp) ==
    /\ files = tiles
    /\ input_array = arrays
    /\ origin_x = xs
    /\ spatial_param = sp
    /\ temporal_param = tp
    /\ netcdf \in {f \in [Range(tiles) -> FileStates] :
                      \A t \in Range(tiles) :
                          /\ f[t] # "ok" => Detections(arrays[t]) = {}
                          /\ f[t] = "missing" => t # tiles[1]}
    /\ pc = "file"
    /\ fi = 1
    /\ disk \in {d \in [Range(tiles) ->
                            {NoTable} \cup UNION {EarlierTables(t, arrays[t]) :
                                                    t \in Range(tiles)}] :
                    \A t \in Range(tiles) :
                        d[t] \in {NoTable} \cup EarlierTables(t, arrays[t])}
    /\ available_pairs = <<>>
    /\ pi = 1
    /\ bi = 1
    /\ event_grid = <<>>
    /\ perimeters = <<>>
    /\ next_event_id = 1
    /\ last_step = [kind |-> "none"]
    /\ edges = <<>>
    /\ not_edges = <<>>
    /\ eids = <<>>
    /\ ei = 1
    /\ d1 = Unbound
    /\ d2 = Unbound
    /\ df = <<>>

\* one tile, every strip
InitStrip ==
    \E a \in Strips :
        Start(<<"h08v04">>, [t \in {"h08v04"} |-> a], [t \in {"h08v04"} |-> 0], 1, 1)

\* one tile, the detections of scene A: every day is larger than
\* temporal_param and no cell holds a day twice
InitScene ==
    \E a \in SubScenes(SceneA) :
        Start(<<"h08v04">>, [t \in {"h08v04"} |-> a], [t \in {"h08v04"} |-> 0], 1, 1)

\* one tile, the detections of scene B
InitSceneB ==
    \E a \in SubScenes(SceneB) :
        Start(<<"h08v04">>, [t \in {"h08v04"} |-> a], [t \in {"h08v04"} |-> 0], 1, 1)

\* two adjacent tiles, the detections of the west and east scenes
InitBuild ==
    \E w \in SubScenes(SceneWest), e \in SubScenes(SceneEast) :
        Start(<<"h08v04", "h09v04">>,
              [t \in {"h08v04", "h09v04"} |-> IF t = "h08v04" THEN w ELSE e],
              [t \in {"h08v04", "h09v04"} |->
                  IF t = "h08v04" THEN 0 ELSE Len(w[1][1]) * res],
              2, 3)

\* two adjacent tiles with events away from the tile edges
InitInner ==
    \E w \in SubScenes(InnerWest), e \in SubScenes(InnerEast) :
        Start(<<"h08v04", "h09v04">>,
              [t \in {"h08v04", "h09v04"} |-> IF t = "h08v04" THEN w ELSE e],
              [t \in {"h08v04", "h09v04"} |->
                  IF t = "h08v04" THEN 0 ELSE Len(w[1][1]) * res],
              2, 1)

Init == InitStrip \/ InitScene \/ InitSceneB \/ InitBuild

Next ==
    \/ PassTile
    \/ RaiseTile
    \/ NewEventGrid
    \/ CreateEvent
    \/ ExtendEvent
    \/ MergeEvents
    \/ ReturnPerimeters
    \/ BuildTable
    \/ ReadTables
    \/ StitchId
    \/ Renumber

Spec == Init /\ [][Next]_vars

SpecScene == InitScene /\ [][Next]_vars

SpecBuild == InitBuild /\ [][Next]_vars

\* two tiles with events away from the tile edges
SpecInner == InitInner /\ [][Next]_vars

\* one tile with two time steps
SpecSeries == InitSceneB /\ [][Next]_vars

\* merge_perimeters called directly on the perimeters of scene A
NextMerge == Next \/ CallMerge

SpecMerge == InitScene /\ [][NextMerge]_vars

----------------------------------------------------------------------------
(* Vocabulary of the properties *)

\* the detections of a tile, as points
TileDetections(tile) ==
    LET a == input_array[tile]
    IN  {<<all_ys(tile)[c[2]], all_xs(tile)[c[3]], a[c[1]][c[2]][c[3]]>> :
            c \in Detections(a)}

\* at most spatial_param cells apart on each axis and temporal_param days
Near(p, q) ==
    /\ abs(p[1] - q[1]) <= spatial_param * res
    /\ abs(p[2] - q[2]) <= spatial_param * res
    /\ abs(p[3] - q[3]) <= temporal_param

RECURSIVE Chained(_, _)
\* the detections of D linked to one of S by a chain of Near detections
Chained(S, D) ==
    LET T == S \cup {q \in D : \E p \in S : Near(p, q)}
    IN  IF T = S THEN S ELSE Chained(T, D)

Linked(p, q, D) == q \in Chained({p}, D)

\* the perimeters that are not tombstoned
Live == {k \in 1..Len(perimeters) : ~perimeters[k].notice}
Tombstoned == {k \in 1..Len(perimeters) : perimeters[k].notice}

PointsOf(k) == Range(perimeters[k].coords)

\* p and q are points of one live perimeter
Together(p, q) == \E k \in Live : p \in PointsOf(k) /\ q \in PointsOf(k)

\* get_event_perimeters has returned for the tile files[fi]
Finished == pc = "table"

RECURSIVE SumOver(_, _)
SumOver(f, S) ==
    IF S = {} THEN 0
    ELSE LET r == CHOOSE r \in S : TRUE IN f[r] + SumOver(f, S \ {r})

\* the rows of the merged table for a detection of a tile
RowsFor(tile, p) ==
    {r \in DOMAIN df : r.tile = tile /\ r.y = p[1] /\ r.x = p[2]
                         /\ r.date = base + p[3]}

----------------------------------------------------------------------------
(* Properties *)

\* C1: when get_event_perimeters has finished on a tile, any two detections
\* linked by a chain of detections whose consecutive members are at most
\* spatial_param cells apart on each axis and at most temporal_param days
\* apart are points of the same live perimeter.
C1_TransitiveClosure ==
    Finished =>
        \A p, q \in TileDetections(tile_id) :
            Linked(p, q, TileDetections(tile_id)) => Together(p, q)

\* C2: every detection is accounted for exactly once: when
\* get_event_perimeters has finished it is a point of a live perimeter, and
\* the merged table holds exactly one row for it.
C2_EveryDetectionOnce ==
    /\ Finished =>
          \A p \in TileDetections(tile_id) : \E k \in Live : p \in PointsOf(k)
    /\ pc = "done" =>
          \A t \in Range(files) : \A p \in TileDetections(t) :
              SumOver(df, RowsFor(t, p)) = 1

\* C3: no point is in the point sets of two live perimeters, and in the
\* merged table the rows of one (tile, y, x, date) carry one id.
C3_OneEventPerPoint ==
    /\ \A j, k \in Live : j # k => PointsOf(j) \cap PointsOf(k) = {}
    /\ pc = "done" =>
          \A r1, r2 \in DOMAIN df :
              (r1.tile = r2.tile /\ r1.y = r2.y /\ r1.x = r2.x
                 /\ r1.date = r2.date) => r1.id = r2.id

\* a merge has acted and two perimeters lie over live ones
C3_Witness ==
    /\ pc = "done"
    /\ Cardinality(Live) >= 2
    /\ Tombstoned # {}
    /\ \E r1, r2 \in DOMAIN df : r1.id # r2.id

\* C4: every value stored in event_grid is the id of a perimeter that is
\* not tombstoned.
C4_GridIdsLive ==
    \A p \in DOMAIN event_grid : event_grid[p] \in Live

\* two merges over three events have acted
C4_Witness ==
    /\ last_step.kind = "merge"
    /\ Cardinality(Tombstoned) >= 2
    /\ \E j, k \in Tombstoned :
          j # k /\ PointsOf(j) # {} /\ PointsOf(k) # {}
             /\ \A p \in PointsOf(j) \cup PointsOf(k) : p \in DOMAIN event_grid

\* C5: a merge of two distinct live ids conserves points: every point of the
\* obsolete perimeter maps to the survivor in event_grid, the survivor's
\* points are its former points followed by the obsolete's points, and the
\* obsolete perimeter is tombstoned with merge_id the survivor.
C5_MergeConserves ==
    [][(InLoop /\ Len(curr_event_ids) >= 2) =>
          LET survivor == curr_event_ids[1]
              obsolete == curr_event_ids[2]
          IN  /\ survivor # obsolete
              /\ survivor \in Live /\ obsolete \in Live
              /\ \A p \in PointsOf(obsolete) : event_grid'[p] = survivor
              /\ perimeters'[survivor].coords =
                     perimeters[survivor].coords \o perimeters[obsolete].coords
              /\ ~perimeters'[survivor].notice
              /\ perimeters'[obsolete].notice
              /\ perimeters'[obsolete].merge_id = survivor
              /\ Len(perimeters') = Len(perimeters)]_vars

\* a merge has moved at least two points
C5_Witness ==
    /\ last_step.kind = "merge"
    /\ \E k \in Tombstoned :
          /\ perimeters[k].merge_id = last_step.ids[1]
          /\ k = last_step.ids[2]
          /\ Len(perimeters[k].coords) >= 2

\* C6: ids are handed out as 1, 2, 3, ... in creation order: the perimeter
\* with id k is at position k of the list, live or tombstoned, the next id
\* is one more than the number of perimeters, it grows by one exactly when a
\* perimeter is created, and the list never shrinks.
C6_IdsInOrder ==
    /\ [](/\ next_event_id = Len(perimeters) + 1
          /\ \A k \in 1..Len(perimeters) : perimeters[k].event_id = k)
    /\ [][pc = "perimeters" =>
             /\ Len(perimeters') >= Len(perimeters)
             /\ \A k \in 1..Len(perimeters) :
                   perimeters'[k].event_id = perimeters[k].event_id
             /\ next_event_id' \in {next_event_id, next_event_id + 1}
             /\ (next_event_id' = next_event_id + 1) <=>
                   (Len(perimeters') = Len(perimeters) + 1)]_vars

\* three ids have been handed out and one of them is tombstoned
C6_Witness ==
    /\ next_event_id >= 4
    /\ Tombstoned # {}
    /\ Live # {}

\* C7: when get_event_perimeters has finished on a tile, two detections at
\* most spatial_param cells apart on each axis and at most temporal_param
\* days apart are points of the same live perimeter.
C7_NeighboursTogether ==
    Finished =>
        \A p, q \in TileDetections(tile_id) : Near(p, q) => Together(p, q)

\* C8: two detections that no chain of detections links are never points of
\* the same perimeter.
C8_UnlinkedApart ==
    Finished =>
        \A p, q \in TileDetections(tile_id) :
            Together(p, q) => Linked(p, q, TileDetections(tile_id))

\* the rows of the event id of a tile's table, and the edge events of a tile
TableRows(tile, id) == RowsOf(disk[tile].rows, id)
EdgeEvents(tile) ==
    {disk[tile].rows[i].id : i \in {j \in 1..Len(disk[tile].rows) :
                                       disk[tile].rows[j].edge}}

\* the ids the merged table gives to a row of a tile's table
FinalIds(r) ==
    {f.id : f \in {g \in DOMAIN df : g.tile = r.tile /\ g.x = r.x /\ g.y = r.y
                                       /\ g.date = r.date}}

\* the earliest day of an id of the merged table
FinalFirstDay(n) ==
    LET days == {f.date - base : f \in {g \in DOMAIN df : g.id = n}}
    IN  CHOOSE d \in days : \A e \in days : d <= e

\* some point of rows1 is closer than the spatial buffer to some point of
\* rows2 on both axes
CloseInSpace(rows1, rows2) ==
    \E i \in 1..Len(rows1), j \in 1..Len(rows2) :
        /\ abs(rows1[i].y - rows2[j].y) < sp_buf
        /\ abs(rows1[i].x - rows2[j].x) < sp_buf

\* every day of rows1 is less than temporal_param days from every day of
\* rows2
CloseInTime(rows1, rows2) ==
    \A i \in 1..Len(rows1), j \in 1..Len(rows2) :
        abs((rows1[i].date - base) - (rows2[j].date - base)) < temporal_param

\* C9: two edge events of different tiles that have a pair of points closer
\* than the spatial buffer on both axes, and whose days are within
\* temporal_param of each other, come out of buildEvents under one id, whose
\* earliest day is not after their first days.  (The claim is stated for its
\* clearest case: all the days of the two events less than temporal_param
\* apart.)
C9_EdgeEventsStitched ==
    pc = "done" =>
        \A t1, t2 \in Range(files) :
            \A e1 \in EdgeEvents(t1), e2 \in EdgeEvents(t2) :
                (/\ t1 # t2
                 /\ CloseInSpace(TableRows(t1, e1), TableRows(t2, e2))
                 /\ CloseInTime(TableRows(t1, e1), TableRows(t2, e2)))
                => \E n \in {f.id : f \in DOMAIN df} :
                      /\ \A r \in Range(TableRows(t1, e1))
                                    \cup Range(TableRows(t2, e2)) :
                            FinalIds(r) = {n}
                      /\ \A r \in Range(TableRows(t1, e1))
                                    \cup Range(TableRows(t2, e2)) :
                            FinalFirstDay(n) <= r.date - base

\* C10: when the loop over the edge ids has ended, no two ids of the edge
\* rows are left that the loop would merge: no id has a temporal candidate
\* whose rows pass the adjacency test, so that one more pass over the ids
\* would change nothing.
C10_StitchingFixedPoint ==
    (pc = "stitch" /\ ei > Len(eids)) =>
        \A a \in Range(Ids(edges)) :
            \A b \in Range(TemporalCandidates(edges, a,
                                              MinDays(RowsOf(edges, a)),
                                              MaxDays(RowsOf(edges, a)))) :
                ~Adjacent(RowsOf(edges, a), RowsOf(edges, b))

\* the rows of a frame grouped by id, a row being its tile, y, x and date
Partition(frame) ==
    {{<<frame[i].tile, frame[i].y, frame[i].x, frame[i].date>> :
         i \in {j \in 1..Len(frame) : frame[j].id = iden}} :
        iden \in Range(Ids(frame))}

\* the edge rows of the tables read in the given order
EdgeRows(order) ==
    LET IsEdge(r) == r.edge = TRUE
    IN  SelectSeq(ReadAll(order), IsEdge)

\* C11: when the loop over the edge ids has ended, the grouping of the edge
\* rows by id is the one the loop produces for every other order of the
\* tables, that is, for every order in which the edge ids and their
\* candidates are visited.
C11_StitchingOrderFree ==
    (pc = "stitch" /\ ei > Len(eids)) =>
        \A order \in Orders({t \in Range(files) : disk[t].exists}) :
            Partition(StitchAll(EdgeRows(order), unique(Ids(EdgeRows(order)))))
                = Partition(edges)

\* the ids of the merged table, and its rows grouped by id
FinalEvents == {f.id : f \in DOMAIN df}
FinalPartition ==
    {{<<f.tile, f.y, f.x, f.date>> : f \in {g \in DOMAIN df : g.id = n}} :
        n \in FinalEvents}

\* C12: the ids of the merged table are exactly 1..n, n being the number of
\* events after stitching, every event keeps its rows under one id of its
\* own, and an event with an earlier first day has a smaller id.
C12_DenseChronologicalIds ==
    pc = "done" =>
        /\ FinalEvents = 1..Cardinality(Range(Ids(not_edges \o edges)))
        /\ FinalPartition = Partition(not_edges \o edges)
        /\ \A a, b \in FinalEvents :
               FinalFirstDay(a) < FinalFirstDay(b) => a < b

\* three events with different first days have been renumbered, one of them
\* stitched from two tiles
C12_Witness ==
    /\ pc = "done"
    /\ \E a, b, c \in FinalEvents :
          /\ FinalFirstDay(a) < FinalFirstDay(b)
          /\ FinalFirstDay(b) < FinalFirstDay(c)
    /\ \E f, g \in DOMAIN df : f.id = g.id /\ f.tile # g.tile

\* C13: merge_perimeters called with an obsolete id whose perimeter is
\* already tombstoned ends in an error: the call raises, it does not return.
C13_MergeTombstonedRaises ==
    (last_step.kind = "call" /\ last_step.tombstoned) => pc = "raised"

\* merge_perimeters has been called with a tombstoned obsolete id and a live
\* survivor
C13_Witness ==
    /\ last_step.kind = "call"
    /\ last_step.tombstoned
    /\ ~perimeters[last_step.event_id].notice
    /\ pc = "raised"

\* C14: for a tile whose grid holds no positive value get_availables
\* returns no cell, and get_event_perimeters returns an empty list, having
\* created no id, registered no point and raised no error.
C14_EmptyTile ==
    /\ (pc = "perimeters" /\ Detections(arr) = {}) => available_pairs = <<>>
    /\ (Finished /\ Detections(arr) = {}) =>
           /\ perimeters = <<>>
           /\ next_event_id = 1
           /\ event_grid = <<>>
    /\ (pc = "raised" /\ Detections(arr) = {}) => netcdf[tile_id] # "ok"

\* get_event_perimeters has returned for a readable tile with no detection
C14_Witness ==
    /\ Finished
    /\ netcdf[tile_id] = "ok"
    /\ Detections(arr) = {}
    /\ last_step.kind = "return"

\* C15: every tile of the run has its table on disk when the stitching
\* stage begins (a tile without a table having been classified and its table
\* written), and a table that exists is never rewritten nor its tile
\* classified again.
C15_TablesBeforeStitching ==
    /\ [](pc \in {"read", "stitch", "done"} =>
             \A t \in Range(files) : disk[t].exists)
    /\ [][/\ \A t \in Range(files) : disk[t].exists => disk'[t] = disk[t]
          /\ (pc = "file" /\ pc' = "perimeters") => ~disk[tile_id].exists]_vars

\* C16: an error raised while one tile is classified does not end the run
\* before the other tiles are classified and their tables written: the run
\* is never over on a failure while a tile that can be read has no table.
C16_TileFailureIsolated ==
    pc = "raised" =>
        \A t \in Range(files) : netcdf[t] = "ok" => disk[t].exists

\* C17: in a step whose candidates touch two or more existing ids, every
\* candidate point that was not yet in event_grid is, when the step ends,
\* registered in event_grid under the survivor (the first id found) and a
\* point of the survivor's perimeter.
C17_NewPointsJoinSurvivor ==
    [][(InLoop /\ Len(curr_event_ids) >= 2) =>
          \A p \in Range(new_pts) :
              /\ p \in DOMAIN event_grid'
              /\ event_grid'[p] = curr_event_ids[1]
              /\ p \in Range(perimeters'[curr_event_ids[1]].coords)]_vars

\* C18: in a step that found the ids i1, i2, ..., ik (k >= 2, in discovery
\* order) exactly i2 is merged into i1: i1 stays live, i2 becomes tombstoned
\* with merge_id i1, and every other perimeter, i3..ik among them, is left as
\* it was, the points of the live ones keeping their event_grid entries.
C18_OnlySecondMerged ==
    [][(InLoop /\ Len(curr_event_ids) >= 2) =>
          LET i1 == curr_event_ids[1]
              i2 == curr_event_ids[2]
          IN  /\ ~perimeters'[i1].notice
              /\ perimeters'[i2].notice
              /\ perimeters'[i2].merge_id = i1
              /\ \A j \in 1..Len(perimeters) :
                     j \notin {i1, i2} =>
                        /\ perimeters'[j] = perimeters[j]
                        /\ ~perimeters[j].notice =>
                               \A p \in Range(perimeters[j].coords) :
                                   event_grid'[p] = j
              /\ \A k \in 3..Len(curr_event_ids) :
                     /\ ~perimeters'[curr_event_ids[k]].notice
                     /\ \A p \in Range(perimeters[curr_event_ids[k]].coords) :
                            event_grid'[p] = curr_event_ids[k]]_vars

\* a step that found three ids has merged the second into the first and
\* left the third live
C18_Witness ==
    /\ last_step.kind = "merge"
    /\ Len(last_step.ids) >= 3
    /\ perimeters[last_step.ids[2]].notice
    /\ perimeters[last_step.ids[2]].merge_id = last_step.ids[1]
    /\ ~perimeters[last_step.ids[3]].notice
    /\ Len(perimeters[last_step.ids[3]].coords) > 0

\* C19: the stitcher's adjacency test on two edge events is true exactly
\* when some point of the one and some point of the other are closer than
\* the spatial buffer on both axes at once, differences of 0 included.
C19_AdjacencyIsBoxMetric ==
    pc = "stitch" =>
        \A a, b \in Range(Ids(edges)) :
            a # b =>
                (Adjacent(RowsOf(edges, a), RowsOf(edges, b))
                    <=> CloseInSpace(RowsOf(edges, a), RowsOf(edges, b)))

\* C20: every merge made while one edge id is processed, the first as well
\* as a later one, leaves the rows of the two events merged (those of the id
\* being processed, as the loop holds them in edf, and those of the candidate)
\* under one id, and it is the event with the larger first day whose rows are
\* relabelled: the rows of the event with the smaller first day keep their id.
C20_MergeIntoEarlier ==
    (pc = "stitch" /\ ei <= Len(eids)) =>
        LET iden == eids[ei]
            edf == RowsOf(edges, iden)
            day1 == IF Len(edf) > 0 THEN MinDays(edf) ELSE d1
            day2 == IF Len(edf) > 0 THEN MaxDays(edf) ELSE d2
            eids2 == TemporalCandidates(edges, iden, day1, day2)
            e == MergeFrames(edges, iden, edf, day1, eids2)
            mine == {i \in 1..Len(edges) : edges[i].id = iden}
        IN  \A k \in 1..Len(eids2) :
                LET edf2 == RowsOf(e[k - 1], eids2[k])
                    theirs == {i \in 1..Len(edges) : e[k - 1][i].id = eids2[k]}
                IN  Adjacent(edf, edf2) =>
                        /\ \A i, j \in mine \cup theirs : e[k][i].id = e[k][j].id
                        /\ day1 < MinDays(edf2) =>
                               \A i \in mine : e[k][i].id = e[k - 1][i].id
                        /\ MinDays(edf2) < day1 =>
                               \A i \in theirs : e[k][i].id = e[k - 1][i].id

----------------------------------------------------------------------------
(* The temporal candidates of the stitching loop *)

\* the distance in days from day d to the range [lo, hi]
DaysFromRange(d, lo, hi) ==
    IF d < lo THEN lo - d ELSE IF d > hi THEN d - hi ELSE 0

\* the ids of a frame, other than iden, whose own first or last day lies
\* within temporal_param days of the range of iden
NearInTime(frame, iden) ==
    LET edf == RowsOf(frame, iden)
    IN  {b \in Range(Ids(frame)) \ {iden} :
            LET edf2 == RowsOf(frame, b)
            IN  \/ DaysFromRange(MinDays(edf2), MinDays(edf), MaxDays(edf))
                       <= temporal_param
                \/ DaysFromRange(MaxDays(edf2), MinDays(edf), MaxDays(edf))
                       <= temporal_param}

\* C21: in the stitching loop, an edge id e2 is a merge candidate of e1
\* exactly when e2's own first or last day lies within temporal_param days
\* of e1's range of days, days inside the range and days at exactly
\* temporal_param from it included
C21_TemporalCandidates ==
    (pc = "stitch" /\ ei <= Len(eids) /\ Len(RowsOf(edges, eids[ei])) > 0) =>
        LET iden == eids[ei]
            edf == RowsOf(edges, iden)
        IN  Range(TemporalCandidates(edges, iden, MinDays(edf), MaxDays(edf)))
                = NearInTime(edges, iden)

----------------------------------------------------------------------------
(* The edge flag of the per-tile tables *)

\* the point of row r lies within spatial_param cells of the boundary of
\* its tile: its row or its column is among the first or the last
\* spatial_param ones
OnEdge(tile, r) ==
    LET ny == Len(all_ys(tile))
        nx == Len(all_xs(tile))
    IN  \/ \E i \in 0..(ny - 1) :
               /\ all_ys(tile)[i + 1] = r.y
               /\ (i < spatial_param \/ i >= ny - spatial_param)
        \/ \E i \in 0..(nx - 1) :
               /\ all_xs(tile)[i + 1] = r.x
               /\ (i < spatial_param \/ i >= nx - spatial_param)

\* the tables that are on disk
Tables == {t \in Range(files) : disk[t].exists}

\* C22: in a tile's table, the edge flag of a row is true exactly when
\* some point of the row's event lies within spatial_param cells of the
\* tile boundary
C22_EdgeFlagOfEvent ==
    \A t \in Tables : \A i \in 1..Len(disk[t].rows) :
        LET r == disk[t].rows[i]
            event == RowsOf(disk[t].rows, r.id)
        IN  r.edge = (\E k \in 1..Len(event) : OnEdge(t, event[k]))

\* C22 as stated: the edge flag of a row is true exactly when the row's
\* own point lies within spatial_param cells of the tile boundary
C22_EdgeFlagOfRow ==
    \A t \in Tables : \A i \in 1..Len(disk[t].rows) :
        disk[t].rows[i].edge = OnEdge(t, disk[t].rows[i])

\* a table was just built that holds an interior row and an edge row of an
\* edge event
C22_Witness ==
    /\ last_step.kind = "table"
    /\ LET rows == disk[files[fi - 1]].rows
           t == files[fi - 1]
       IN  /\ \E i \in 1..Len(rows) : rows[i].edge /\ ~OnEdge(t, rows[i])
           /\ \E i \in 1..Len(rows) : rows[i].edge /\ OnEdge(t, rows[i])

----------------------------------------------------------------------------
(* The cells get_event_perimeters visits *)

\* cell a comes before cell b in row-major order
RowMajorBefore(a, b) == a[1] < b[1] \/ (a[1] = b[1] /\ a[2] < b[2])

\* the cells of an array that hold a detection at some time step
EverPositive(a) ==
    {c \in (0..(Shape(a)[2] - 1)) \X (0..(Shape(a)[3] - 1)) :
        \E t \in 0..(Shape(a)[1] - 1) : At(a, t, c[1], c[2]) > 0}

\* C23: get_availables returns exactly the cells whose maximum over time is
\* positive, each once and in row-major order, and get_event_perimeters
\* visits them in that order
C23_AvailablesRowMajor ==
    /\ [](pc = "perimeters" =>
            /\ Range(available_pairs) = EverPositive(arr)
            /\ \A i, j \in 1..Len(available_pairs) :
                   i < j => RowMajorBefore(available_pairs[i], available_pairs[j])
            /\ pi \in 1..(Len(available_pairs) + 1))
    /\ [][(pc = "perimeters" /\ pc' = "perimeters") =>
            /\ available_pairs' = available_pairs
            /\ \/ pi' = pi /\ bi' = bi + 1
               \/ pi' = pi + 1 /\ bi' = 1]_vars

\* the loop is at the second of the available cells, the first of which is
\* in a later column, and a cell without detections lies before it
C23_Witness ==
    /\ InLoop
    /\ pi = 2
    /\ available_pairs[1][2] > available_pairs[2][2]
    /\ \E c \in (0..(dims[1] - 1)) \X (0..(dims[2] - 1)) :
           RowMajorBefore(c, pair) /\ c \notin Range(available_pairs)

----------------------------------------------------------------------------
(* The spatial window *)

\* the largest spatial_param the window is computed for
MaxParam == 3

\* the cells of the tile being classified
Cells == (0..(dims[1] - 1)) \X (0..(dims[2] - 1))

\* the window w of cell c, cut from a grid of the given dimensions as
\* arr[:, top:bottom+1, left:right+1], holds c at the index w.center, and
\* w.origin is the full-grid index of its first row and column
WindowHolds(w, c, array_dims) ==
    LET nrows == PySliceLen(w.top, w.bottom + 1, array_dims[1])
        ncols == PySliceLen(w.left, w.right + 1, array_dims[2])
        cy == PyIndex(w.center[1], nrows)
        cx == PyIndex(w.center[2], ncols)
    IN  /\ cy \in 0..(nrows - 1)
        /\ cx \in 0..(ncols - 1)
        /\ w.top + cy = c[1]
        /\ w.left + cx = c[2]
        /\ w.origin = <<w.top, w.left>>

\* C24: the window get_spatial_window returns for a cell contains the cell
\* at the returned center index, and the returned origin is the full-grid
\* index of the window's first row and column, near the borders and for
\* grids smaller than 2 * spatial_param too
C24_WindowCenterOrigin ==
    pc = "perimeters" =>
        \A sp \in 0..MaxParam : \A c \in Cells :
            WindowHolds(get_spatial_window(c[1], c[2], dims, sp), c, dims)

\* the loop is at a cell of the last column, whose center index counts
\* from the end of the window, and of the first rows
C24_Witness ==
    /\ InLoop
    /\ window.center[2] < 0
    /\ window.center[1] = pair[1]
    /\ window.origin[1] = 0
    /\ window.origin[2] > 0
    /\ dims[1] < 2 * MaxParam

\* C25: for the cell being processed, the window bounds satisfy
\* 0 <= top <= y <= bottom <= ny - 1 and 0 <= left <= x <= right <= nx - 1
C25_WindowBounds ==
    InLoop =>
        /\ 0 <= window.top /\ window.top <= pair[1]
        /\ pair[1] <= window.bottom /\ window.bottom <= dims[1] - 1
        /\ 0 <= window.left /\ window.left <= pair[2]
        /\ pair[2] <= window.right /\ window.right <= dims[2] - 1

----------------------------------------------------------------------------
(* event_grid and the perimeters *)

\* event_grid maps p to k exactly when p is a point of the live perimeter k
GridMatchesPerimeters ==
    /\ \A p \in DOMAIN event_grid :
           event_grid[p] \in Live /\ p \in PointsOf(event_grid[p])
    /\ \A k \in Live : \A p \in PointsOf(k) :
           p \in DOMAIN event_grid /\ event_grid[p] = k

\* no cell of the array holds the same day at two time steps
NoRepeatedDay(a) ==
    \A t1, t2 \in 0..(Shape(a)[1] - 1) :
        \A y \in 0..(Shape(a)[2] - 1), x \in 0..(Shape(a)[3] - 1) :
            (t1 # t2 /\ At(a, t1, y, x) > 0) => At(a, t1, y, x) # At(a, t2, y, x)

\* every registered point occurs exactly once across the live perimeters
OncePerPoint ==
    \A p \in DOMAIN event_grid :
        Cardinality({c \in UNION {{k} \X DOMAIN perimeters[k].coords : k \in Live} :
                        perimeters[c[1]].coords[c[2]] = p}) = 1

\* C26: while a tile is classified, event_grid and the live perimeters
\* agree, and when no cell holds the same day at two time steps each
\* registered point occurs exactly once across the live perimeters
C26_GridMatchesPerimeters ==
    pc \in {"perimeters", "table"} =>
        /\ GridMatchesPerimeters
        /\ NoRepeatedDay(arr) => OncePerPoint

\* C27: get_event_perimeters never calls merge_perimeters with a tombstoned
\* id as survivor or as obsolete, nor with the survivor equal to the
\* obsolete: whenever the overlap branch is about to be taken, the two ids
\* it passes are different ids of live perimeters, and no call raises
C27_MergeCallsOnLive ==
    /\ (InLoop /\ Len(curr_event_ids) >= 2) =>
           /\ curr_event_ids[1] \in Live
           /\ curr_event_ids[2] \in Live
           /\ curr_event_ids[1] # curr_event_ids[2]
    /\ last_step.kind = "merge" => pc # "raised"

\* the overlap branch is about to be taken while a perimeter merged earlier
\* lies tombstoned in the list
C27_Witness ==
    /\ InLoop
    /\ Len(curr_event_ids) >= 2
    /\ Tombstoned # {}
    /\ \E k \in Tombstoned : PointsOf(k) # {}

\* C28: no point whose day value is 0 or less is ever registered in
\* event_grid or added to a perimeter, burn days not larger than
\* temporal_param included
C28_NoZeroPoints ==
    pc \in {"perimeters", "table"} =>
        /\ \A p \in DOMAIN event_grid : p[3] > 0
        /\ \A k \in 1..Len(perimeters) : \A p \in PointsOf(k) : p[3] > 0

----------------------------------------------------------------------------
(* Stitching and the per-tile events *)

\* the rows of the per-tile tables, as pairs of a tile and a row number
TableRowIds == UNION {{t} \X (1..Len(disk[t].rows)) : t \in Tables}

\* the row of a per-tile table
TableRow(c) == disk[c[1]].rows[c[2]]

\* the number of rows a per-tile row or a merged row stands for: rows of
\* the merged table, and rows of the per-tile tables, with the tile, the
\* date and the coordinates of r
CountFinal(r) ==
    SumOver(df, {f \in DOMAIN df : f.tile = r.tile /\ f.x = r.x /\ f.y = r.y
                                     /\ f.date = r.date})
CountTables(r) ==
    Cardinality({c \in TableRowIds :
                    /\ TableRow(c).tile = r.tile /\ TableRow(c).x = r.x
                    /\ TableRow(c).y = r.y /\ TableRow(c).date = r.date})

\* C29: stitching only coarsens the per-tile partition and leaves interior
\* events alone: rows sharing tile and local id share their final id, two
\* rows of non-edge events share a final id only if they share tile and
\* local id, and the merged table holds the rows of the per-tile tables,
\* none added and none dropped
C29_StitchingCoarsens ==
    pc = "done" =>
        /\ \A c1, c2 \in TableRowIds :
               (c1[1] = c2[1] /\ TableRow(c1).id = TableRow(c2).id) =>
                   /\ Cardinality(FinalIds(TableRow(c1))) = 1
                   /\ FinalIds(TableRow(c1)) = FinalIds(TableRow(c2))
        /\ \A c1, c2 \in TableRowIds :
               (/\ ~TableRow(c1).edge /\ ~TableRow(c2).edge
                /\ FinalIds(TableRow(c1)) \cap FinalIds(TableRow(c2)) # {}) =>
                   (c1[1] = c2[1] /\ TableRow(c1).id = TableRow(c2).id)
        /\ \A c \in TableRowIds : CountFinal(TableRow(c)) = CountTables(TableRow(c))
        /\ \A f \in DOMAIN df : CountFinal(f) = CountTables(f)

\* two edge events of different tiles were stitched into one, next to two
\* interior events of one tile and an interior event of the other with
\* the same local id as one of them
C29_Witness ==
    /\ pc = "done"
    /\ \E c1, c2 \in TableRowIds :
           c1[1] # c2[1] /\ FinalIds(TableRow(c1)) = FinalIds(TableRow(c2))
    /\ \E c1, c2 \in TableRowIds :
           /\ c1[1] = c2[1] /\ TableRow(c1).id # TableRow(c2).id
           /\ ~TableRow(c1).edge /\ ~TableRow(c2).edge
    /\ \E c1, c2 \in TableRowIds :
           /\ c1[1] # c2[1] /\ TableRow(c1).id = TableRow(c2).id
           /\ ~TableRow(c1).edge /\ ~TableRow(c2).edge

\* C30: in every per-tile table all rows of one event carry the same edge
\* flag, so that the split into edge rows and other rows never separates
\* the rows of one event
C30_EdgeFlagPerEvent ==
    /\ \A c1, c2 \in TableRowIds :
           (c1[1] = c2[1] /\ TableRow(c1).id = TableRow(c2).id) =>
               TableRow(c1).edge = TableRow(c2).edge
    /\ last_step.kind = "read" =>
           Range(Ids(edges)) \cap Range(Ids(not_edges)) = {}

\* the tables were just split, an event with a point in the edge zone and
\* a point outside it lying among the edge rows, and there are other rows
C30_Witness ==
    /\ last_step.kind = "read"
    /\ not_edges # <<>>
    /\ \E i, j \in 1..Len(edges) :
           /\ edges[i].id = edges[j].id
           /\ OnEdge(edges[i].tile, edges[i])
           /\ ~OnEdge(edges[j].tile, edges[j])

====
